---- MODULE Spec2Model ----
(***************************************************************************)
(* A model of the Dysdera crawl engine (src/dysdera): the robots rule      *)
(* database, the priority frontier, the visited set, the enqueue protocol, *)
(* the per-domain worker and the dispatcher.                               *)
(*                                                                         *)
(* Strings are sequences of characters, so that str.startswith is a real   *)
(* prefix test.  A URL is a record [dom, path]; the scheme is always https *)
(* (parser.py:45-46) and is left out.                                      *)
(*                                                                         *)
(* The crawl is a set of asyncio tasks on one event loop: a task runs      *)
(* without interruption from one await that suspends it to the next, so    *)
(* each action is the code one task runs when the answer it waits for      *)
(* arrives.  Two things are fixed about time: a politeness sleep completes *)
(* while the task that created it awaits it (the requests of one loop      *)
(* iteration are answered in less time than the delay lasts), and a        *)
(* CancelledError reaches a cancelled task before any answer does.         *)
(***************************************************************************)
EXTENDS Integers, Sequences, FiniteSets, TLC

\* ------------------------------------------------------------------------
\* Bounds of the model
\* ------------------------------------------------------------------------
MaxPathLen == 2      \* longest robots prefix / path of the robots specification
MaxRuleSet == 2      \* most Disallow lines, and most Allow lines, of a robots file
MaxPush    == 4      \* most pushes into the frontier of the frontier specification
MaxCost    == 2      \* costs are drawn from 0..MaxCost
MaxSetOps  == 3      \* most mutating operations of the visited-set specification
MaxFaults  == 1      \* most failing requests and extractor calls of a crawl

Chars == {"a", "b"}

RECURSIVE StringsOfLen(_)
StringsOfLen(n) ==
    IF n = 0 THEN {<<>>}
    ELSE {Append(s, c) : s \in StringsOfLen(n - 1), c \in Chars}

Strings == UNION {StringsOfLen(n) : n \in 0..MaxPathLen}

\* str.startswith(prefix)
StartsWith(s, p) == Len(p) <= Len(s) /\ SubSeq(s, 1, Len(p)) = p

\* list.remove(x): drops the first occurrence of x
RECURSIVE ListRemove(_, _)
ListRemove(l, x) ==
    IF l = <<>> THEN <<>>
    ELSE IF Head(l) = x THEN Tail(l)
    ELSE <<Head(l)>> \o ListRemove(Tail(l), x)

SeqToSet(l) == {l[i] : i \in 1..Len(l)}

\* sorted(list(a_set), key=len, reverse=True): the order of a set's elements
\* is arbitrary and the sort is stable, so any sequence of the set's elements
\* with non-increasing lengths can come out.
SortedByLenDesc(S) ==
    {l \in [1..Cardinality(S) -> S] :
        /\ SeqToSet(l) = S
        /\ \A i \in 1..(Len(l) - 1) : Len(l[i]) >= Len(l[i + 1])}

VARIABLES
    \* --- robots rule database (web.py RobotsRules) and one parsed robots file
    rules,          \* RobotsRules.rules: domain -> [has, list]
    rb_prohibited,  \* RobotsParser.prohibited of the file handed to add_rules
    rb_allowed,     \* RobotsParser.allowed
    rb_result,      \* the last is_respected call: [path, permitted] or NoCall
    \* --- one frontier (web.py WebQueue) driven through its interface
    wq,             \* the WebQueue: [heap, counter]
    wq_pushed,      \* number of pushes made so far
    wq_popped,      \* the items popped since the last push, in pop order
    \* --- the visited set (web.py WebSet)
    visited,        \* WebSet.items
    ws_op,          \* the WebSet operation of the last step: [name, n]
    \* --- the crawl session (dysderacrawler.py DysderaCrawler)
    policy,         \* the Policy handed to start(), and duplicate_sensibility
    domains_queues, \* DysderaCrawler.domains_queues: domain -> [has, q]
    event_queue,    \* DysderaCrawler.event_queue
    premature_end,  \* DysderaCrawler.premature_end
    dpc,            \* where start() is: "init", "sleeping", "returned"
    all_sub_task,   \* start()'s list of worker tasks
    task,           \* the crawl_domain tasks, by task number
    polite,         \* per origin: every fetch so far started after the
                    \* politeness sleeps begun before it had completed
    faults,         \* how many requests and extractor calls have failed
    \* --- one page object (web.py WebPage) driven through its interface
    web_page,       \* the WebPage: [url, head, text, last_modify]
    pg_request,     \* the HTTP request the page is waiting on: [kind, url, without_ssl]
    requests,       \* number of HTTP requests the page has issued
    pg_last,        \* the last call or response handled, and the page before it
    \* --- page contents, their hashes and a visited set of them (parser.py
    \* DysderaParser, web.py WebPage.duplicate / near_duplicate)
    parsers,        \* the DysderaParser of each page object: [text, bytes, s_hash]
    sh_items,       \* WebSet.items of these page objects
    sh_last,        \* the last call made and what it returned
    \* --- URL values as keys of a set (parser.py URL, dysderacrawler.py:126)
    found,          \* the `found` set of a sitemap pass
    url_last,       \* the link of the last `found` step, and whether it was added
    rp_lines,       \* the lines of a robots.txt handed to RobotsParser
    rp_parser,      \* the fields of that RobotsParser
    \* --- one pass of update_queue_from_sitemap over its list of sitemaps
    sm_web,         \* what each sitemap URL serves: a urlset or an index
    sm_maps,        \* maps.items, the WebSet the pass iterates
    sm_pos,         \* maps.pos
    sm_pc,          \* "loop": at the head of the loop, "get", "moved", "done"
    sm_log          \* the sitemap URLs a GET was sent for, in order

rbVars == <<rb_prohibited, rb_allowed, rb_result>>
wqVars == <<wq, wq_pushed, wq_popped>>
wsVars == <<ws_op>>
crVars == <<policy, domains_queues, event_queue, premature_end, dpc,
            all_sub_task, task, polite, faults>>

vars == <<rules, rb_prohibited, rb_allowed, rb_result,
          wq, wq_pushed, wq_popped, visited, ws_op,
          policy, domains_queues, event_queue, premature_end, dpc,
          all_sub_task, task, polite, faults,
          web_page, pg_request, requests, pg_last,
          parsers, sh_items, sh_last, found, url_last,
          rp_lines, rp_parser,
          sm_web, sm_maps, sm_pos, sm_pc, sm_log>>

pgVars == <<web_page, pg_request, requests, pg_last>>
shVars == <<parsers, sh_items, sh_last>>
urlVars == <<found, url_last>>
rpVars == <<rp_lines, rp_parser>>
smVars == <<sm_web, sm_maps, sm_pos, sm_pc, sm_log>>
auxVars == <<rpVars, smVars>>
fnVars == <<pgVars, shVars, urlVars, auxVars>>
coreVars == <<rules, visited, rbVars, wqVars, wsVars, crVars>>

rbIn == <<rb_prohibited, rb_allowed>>
notRbVars == <<wqVars, wsVars, crVars, visited, fnVars>>
notWqVars == <<rbVars, wsVars, crVars, visited, rules, fnVars>>
notWsVars == <<rbVars, wqVars, crVars, rules, fnVars>>
notCrVars == <<rbVars, wqVars, wsVars, fnVars>>

Origins == {"a", "b"}

NoRules == [has |-> FALSE, list |-> <<>>]
NoCall  == [called |-> FALSE, dom |-> "a", path |-> <<>>, permitted |-> TRUE]

\* ------------------------------------------------------------------------
\* RobotsRules (web.py:391-432)
\* ------------------------------------------------------------------------

\* the inner loop of add_rules: `for allo in allows` walks the list by index
\* while allows.remove(allo) shortens it.
RECURSIVE AddRulesInner(_, _, _, _)
AddRulesInner(proh, allows, i, encapsulated) ==
    IF i > Len(allows) THEN [allows |-> allows, enc |-> encapsulated]
    ELSE LET allo == allows[i] IN
         IF Len(proh) > Len(allo)
         THEN [allows |-> allows, enc |-> encapsulated]            \* break
         ELSE IF StartsWith(allo, proh)
         THEN AddRulesInner(proh, ListRemove(allows, allo), i + 1,
                            Append(encapsulated, allo))
         ELSE AddRulesInner(proh, allows, i + 1, encapsulated)

RECURSIVE AddRulesOuter(_, _, _)
AddRulesOuter(prohibs, allows, rule) ==
    IF prohibs = <<>> THEN rule
    ELSE LET r == AddRulesInner(Head(prohibs), allows, 1, <<>>) IN
         AddRulesOuter(Tail(prohibs), r.allows,
                       Append(rule, [proh |-> Head(prohibs), allowed |-> r.enc]))

\* the rule list add_rules stores, for one outcome of the two sorts
add_rules(prohibs, allows) == AddRulesOuter(prohibs, allows, <<>>)

\* is_respected(by): the first rule whose prefix matches decides
FirstMatching(list, path) ==
    LET M == {i \in 1..Len(list) : StartsWith(path, list[i].proh)} IN
    IF M = {} THEN 0 ELSE CHOOSE i \in M : \A j \in M : i <= j

is_respected(db, dom, path) ==
    IF ~db[dom].has \/ Len(db[dom].list) = 0 THEN TRUE
    ELSE LET i == FirstMatching(db[dom].list, path) IN
         IF i = 0 THEN TRUE
         ELSE \E k \in 1..Len(db[dom].list[i].allowed) :
                  StartsWith(path, db[dom].list[i].allowed[k])

\* ------------------------------------------------------------------------
\* WebQueue (web.py:520-555): a heapq heap of (cost(item), next(counter), item)
\* ------------------------------------------------------------------------
EmptyQueue == [heap |-> <<>>, counter |-> 0]

\* a comparison that stops at the cost (the counter left out of the entry)
EntryLessCostOnly(x, y) == x.cost < y.cost

\* tuple comparison of two heap entries.  The counters of one queue are all
\* different, so the comparison never reaches the items.
EntryLess(x, y) ==
    \/ x.cost < y.cost
    \/ x.cost = y.cost /\ x.counter < y.counter

\* heapq._siftdown(heap, startpos, pos), positions counted from 0
RECURSIVE SiftDown(_, _, _, _)
SiftDown(heap, startpos, pos, newitem) ==
    IF pos > startpos
    THEN LET parentpos == (pos - 1) \div 2
             parent    == heap[parentpos + 1] IN
         IF EntryLess(newitem, parent)
         THEN SiftDown([heap EXCEPT ![pos + 1] = parent], startpos, parentpos, newitem)
         ELSE [heap EXCEPT ![pos + 1] = newitem]
    ELSE [heap EXCEPT ![pos + 1] = newitem]

\* heapq._siftup(heap, pos): the smaller child bubbles up until a leaf is hit
RECURSIVE SiftUpLoop(_, _, _)
SiftUpLoop(heap, pos, newitem) ==
    LET endpos   == Len(heap)
        childpos == 2 * pos + 1
        rightpos == childpos + 1 IN
    IF childpos < endpos
    THEN LET c == IF rightpos < endpos
                     /\ ~EntryLess(heap[childpos + 1], heap[rightpos + 1])
                  THEN rightpos ELSE childpos IN
         SiftUpLoop([heap EXCEPT ![pos + 1] = heap[c + 1]], c, newitem)
    ELSE [h |-> [heap EXCEPT ![pos + 1] = newitem], pos |-> pos]

SiftUp(heap, pos) ==
    LET newitem == heap[pos + 1]
        r       == SiftUpLoop(heap, pos, newitem) IN
    SiftDown(r.h, pos, r.pos, newitem)

Heappush(heap, entry) ==
    LET h == Append(heap, entry) IN SiftDown(h, 0, Len(h) - 1, entry)

\* heapq.heappop: [ret, heap]
Heappop(heap) ==
    LET lastelt == heap[Len(heap)]
        rest    == SubSeq(heap, 1, Len(heap) - 1) IN
    IF rest # <<>>
    THEN [ret |-> rest[1], heap |-> SiftUp([rest EXCEPT ![1] = lastelt], 0)]
    ELSE [ret |-> lastelt, heap |-> rest]

\* WebQueue.push(item, cost): cost(item) is evaluated here, once
QueuePush(q, item, cost) ==
    [heap    |-> Heappush(q.heap, [cost |-> cost, counter |-> q.counter, item |-> item]),
     counter |-> q.counter + 1]

\* WebQueue.pop / __next__ on a queue that is not empty: [item, queue]
QueuePop(q) ==
    LET r == Heappop(q.heap) IN
    [item |-> r.ret.item, queue |-> [heap |-> r.heap, counter |-> q.counter]]

QueueIsEmpty(q) == Len(q.heap) = 0

\* ------------------------------------------------------------------------
\* WebSet (web.py:228-285).  WebPage.__eq__ compares the urls only.
\* ------------------------------------------------------------------------
PageEq(x, y) == x.url = y.url

PageIn(items, e) == \E i \in 1..Len(items) : PageEq(items[i], e)

contains_url(items, url) == \E i \in 1..Len(items) : items[i].url = url

\* an add that keeps the list at one element
WebSetAddOverwriting(items, e) == IF PageIn(items, e) THEN items ELSE <<e>>

\* add: `if element not in self.items: self.items.append(element)`
WebSetAdd(items, e) == IF PageIn(items, e) THEN items ELSE Append(items, e)

\* remove: list.remove drops the first element equal to `element`
RECURSIVE RemoveFirstEq(_, _)
RemoveFirstEq(items, e) ==
    IF items = <<>> THEN <<>>
    ELSE IF PageEq(Head(items), e) THEN Tail(items)
    ELSE <<Head(items)>> \o RemoveFirstEq(Tail(items), e)

WebSetRemove(items, e) == IF PageIn(items, e) THEN RemoveFirstEq(items, e) ELSE items

WebSetReset(items) == <<>>

\* ------------------------------------------------------------------------
\* The web the crawl runs on: two origins, "a" (the seed) and "b".  What each
\* URL serves is fixed; whether a request succeeds is drawn at each request.
\* ------------------------------------------------------------------------
Url(d, p) == [dom |-> d, path |-> p]

RobotsPath  == <<"r">>       \* /robots.txt
SitemapPath == <<"s">>       \* /sitemap.xml
SitemapPath2 == <<"t">>      \* /sitemap2.xml

Root(o) == Url(o, <<>>)
A0 == Root("a")
A1 == Url("a", <<"a">>)
B0 == Root("b")
B1 == Url("b", <<"a">>)

Seeds == <<"a">>

\* the text a successful GET of the URL returns: the root of "a" and its page
\* /a serve the same text
WebText(u) ==
    IF u \in {A0, A1} THEN "t0" ELSE IF u = B0 THEN "t1" ELSE "t2"

\* Content-Type says html, and the body has an <html> root: every page but
\* the root of "b"
IsHtml(u) == u # B0

\* the <a href> targets of the page, absolute, in document order
WebLinks(u) == IF u = A0 THEN <<A1, B1>> ELSE <<>>

\* <link rel=canonical>: /a of "a" names the root of "a" by an absolute href;
\* /a of "b" names /c of "b" by the href "/c".  url is the URL the href
\* stands for, absolute says the href has a scheme and a host.
WebCanonical(u) ==
    IF u = A1 THEN [has |-> TRUE, url |-> A0, absolute |-> TRUE]
    ELSE IF u = B1 THEN [has |-> TRUE, url |-> Url("b", <<"c">>), absolute |-> FALSE]
    ELSE [has |-> FALSE, url |-> u, absolute |-> TRUE]

\* what RobotsParser.parse leaves of the origin's robots.txt: "a" states
\* nothing; "b" has `Disallow: /a`, `Crawl-delay: 2` and two `Sitemap:` lines
WebRobotsFile(o) ==
    IF o = "a"
    THEN [prohibited |-> {}, allowed |-> {}, polite_delay |-> 0,
          sitemap |-> <<>>]
    ELSE [prohibited |-> {<<"a">>}, allowed |-> {}, polite_delay |-> 2,
          sitemap |-> <<Url("b", SitemapPath), Url("b", SitemapPath2)>>]

\* the sitemaps of "b": each is a urlset of the same two entries
WebSitemap(u) ==
    [map_of_maps |-> FALSE,
     maps  |-> <<>>,
     links |-> <<B1, B0>>]

\* the `news` field of the urlset entry of a page
SitemapEntryIsNews(u) == u = B0

\* ------------------------------------------------------------------------
\* Policy (policy.py:21-82) and DysderaCrawler.duplicate_sensibility
\* ------------------------------------------------------------------------
SchedulingCost        == 1    \* scheduling_cost = lambda x: 1
SitemapSchedulingCost == 1    \* sitemap_scheduling_cost = lambda x: 1
DefaultDelay          == 5    \* default_delay: float = 5

\* the selection_policy callback handed to Policy: every page but /a of "b"
selection_policy(u) == u # B1

\* sitemap_selection_policy: SitemapSelectionPolicy.is_news()
sitemap_selection_policy(u) == SitemapEntryIsNews(u)

DefaultPolicy ==
    [respect_robots |-> TRUE, canonical_url |-> TRUE,
     force_without_ssl |-> FALSE, duplicate_sensibility |-> 0]

Policies ==
    {[DefaultPolicy EXCEPT !.duplicate_sensibility = d, !.force_without_ssl = f] :
        d \in {1}, f \in BOOLEAN}

\* headers_before_visit of the default policy: default_false
headers_before_visit(u) == FALSE

\* `if policy.headers_before_visit(page):` in load_queue tests the coroutine
\* object the call returns, never its result: the test always succeeds
HeadersBeforeVisitTest == TRUE

\* should_visit (policy.py:61-64): without a sitemap it returns the coroutine
\* object of selection_policy(link), which load_queue's `if` takes as true;
\* with one, selection_policy is awaited and and-ed with the entry's verdict
should_visit(u, withSitemap) ==
    IF ~withSitemap THEN TRUE
    ELSE selection_policy(u) /\ sitemap_selection_policy(u)

\* queue_weight / map_queue_weight (policy.py:66-76): SchedulingCost.combine
\* sums the cost functions, each with weight 1
queue_weight(u) == SchedulingCost * 1

\* a sitemap push weighed as a push without sitemap
map_queue_weight_plain(u) == SchedulingCost * 1

map_queue_weight(u) == SchedulingCost * 1 + SitemapSchedulingCost * 1

\* should_crawl (policy.py:78-82) with the default focus_policy
should_crawl(u) == IsHtml(u)

\* ------------------------------------------------------------------------
\* Pages (web.py WebPage and subclasses).  `parsed` says the parser is set
\* (the body was downloaded); `oid` tells the WebTarget objects of one domain
\* apart: it is the counter value its frontier gave the object at its push.
\* ------------------------------------------------------------------------
Page(u, k) == [url |-> u, kind |-> k, parsed |-> FALSE, oid |-> 0, sm |-> FALSE]

NoPage == Page(A0, "none")

SameObject(x, y) ==
    /\ x.kind = "target" /\ y.kind = "target"
    /\ x.url.dom = y.url.dom /\ x.oid = y.oid

\* DysderaParser.__eq__ (parser.py:114-124): hash() returns the sha256 object
\* itself, not its digest, and two hash objects are equal only when they are
\* one object, which they are only for one and the same parser
ParserEq(x, y) == SameObject(x, y)

\* WebSet.contains_duplicate(item) (web.py:264-268), item downloaded:
\* elem.duplicate(item) raises MissingDownloadException at the first element
\* whose parser is None
RECURSIVE contains_duplicate(_, _)
contains_duplicate(items, x) ==
    IF items = <<>> THEN "false"
    ELSE IF ~Head(items).parsed THEN "missing"
    ELSE IF ParserEq(Head(items), x) THEN "true"
    ELSE contains_duplicate(Tail(items), x)

\* violate_duplicate_policy (dysderacrawler.py:33-39), sensibility 0 or 1
violate_duplicate_policy(sens, items, x) ==
    IF sens <= 0 THEN "false" ELSE contains_duplicate(items, x)

NoQueue == [has |-> FALSE, q |-> EmptyQueue]

Tasks == 1..(Len(Seeds) + Cardinality(Origins))

\* what the canonical handling of the last page a task downloaded was: the
\* page, whether its canonical URL was one to enqueue (declared, different,
\* not visited, permitted by robots), whether load_queue was called with it
NoCanon == [declared |-> FALSE, page |-> NoPage.url, due |-> FALSE, passed |-> FALSE]

Unborn ==
    [st |-> "unborn", origin |-> "a", pc |-> "none", ctx |-> "none",
     retry |-> FALSE, cancelled |-> FALSE, delay |-> 0,
     maps |-> <<>>, mpos |-> 0, found |-> {}, target |-> NoPage, lq |-> NoPage,
     links |-> <<>>, politeness |-> "none", saving |-> FALSE,
     afterCancel |-> FALSE, canon |-> NoCanon, passed |-> <<>>]

\* ------------------------------------------------------------------------
\* The crawl session as one record, so that the code a task runs between two
\* suspension points is one function from session to session.
\* ------------------------------------------------------------------------
Session ==
    [task |-> task, dq |-> domains_queues, ev |-> event_queue,
     vis |-> visited, rl |-> rules, pol |-> polite]

\* what the outcome of an HTTP request can be: a 2xx answer, 304, another
\* status, a timeout, a connection failure, a TLS verification failure, and
\* an aiohttp.ClientError that is no connection error (a broken payload)
Outcomes ==
    {"ok", "not_modified", "http_error", "timeout", "connection", "ssl",
     "client_error"}

\* a load_queue that catches nothing
NoSilentInHead == {}

\* the failures load_queue catches and answers by returning
SilentInHead == {"not_modified", "http_error", "timeout", "connection"}

IsDone(t) == t.st \in {"done", "error", "cancelled"}

\* a download request, a frontier push or an extractor dispatch made by a
\* task on which cancel() has been called
Effect(t) == [t EXCEPT !.afterCancel = @ \/ t.cancelled]

\* robots verdict of the crawler for a URL it is about to enqueue
RobotsAllow(s, u) ==
    ~policy.respect_robots \/ is_respected(s.rl, u.dom, u.path)

\* the task returns, or ends with an exception or a CancelledError
Finish(s, w, how) ==
    [s EXCEPT !.task[w] =
        [Unborn EXCEPT !.st = how, !.origin = s.task[w].origin,
                       !.delay = s.task[w].delay,
                       !.politeness = s.task[w].politeness,
                       !.saving = s.task[w].saving,
                       !.canon = s.task[w].canon,
                       !.cancelled = s.task[w].cancelled,
                       !.afterCancel = s.task[w].afterCancel]]

\* a GET of a sitemap or of a page leaves: fresh says a new politeness sleep
\* was created just before it (asyncio.create_task(asyncio.sleep(delay)))
FetchStart(s, w, ctx, retry, fresh) ==
    LET t  == s.task[w]
        ok == \A v \in Tasks :
                 (s.task[v].st = "live" /\ s.task[v].origin = t.origin)
                     => s.task[v].politeness # "pending" IN
    [s EXCEPT !.pol[t.origin] = @ /\ ok,
              !.task[w] = [Effect(t) EXCEPT
                              !.pc = "get", !.ctx = ctx, !.retry = retry,
                              !.politeness = IF fresh THEN "pending" ELSE @]]

\* the head of the priority-crawl loop (dysderacrawler.py:185-191): pop,
\* skip the visited, start the sleep and the download
RECURSIVE NextIteration(_, _)
NextIteration(s, w) ==
    LET t == s.task[w]
        q == s.dq[t.origin].q IN
    IF QueueIsEmpty(q) THEN Finish(s, w, "done")
    ELSE LET r  == QueuePop(q)
             s1 == [s EXCEPT !.dq[t.origin].q = r.queue] IN
         IF contains_url(s1.vis, r.item.url) THEN NextIteration(s1, w)
         ELSE FetchStart(
                 [s1 EXCEPT !.task[w].target = r.item,
                            !.task[w].lq = NoPage,
                            !.task[w].links = <<>>],
                 w, "page", FALSE, TRUE)

\* `for target in self.domains_queues[domain.domain]` (line 185): a KeyError
\* when no frontier exists for the domain
EnterLoop(s, w) ==
    IF ~s.dq[s.task[w].origin].has THEN Finish(s, w, "error")
    ELSE NextIteration(s, w)

\* load_queue up to its first await (lines 41-44): the HEAD request
LoadQueueCall(s, w, page, ctx) ==
    IF HeadersBeforeVisitTest
    THEN [s EXCEPT !.task[w].pc = "head", !.task[w].ctx = ctx,
                   !.task[w].lq = page, !.task[w].retry = FALSE]
    ELSE s

\* a test of line 60 that finds no frontier, whatever the map holds
NoFrontierYet(dq, d) == FALSE

\* `page.url.domain not in self.domains_queues` (line 60), negated
HasFrontier(dq, d) == dq[d].has

\* load_queue after the HEAD (lines 58-75).  Nothing suspends the task from
\* the test of line 60 to the end: the lock of line 62 is only ever held
\* inside this block, and put() on an unbounded queue does not wait.
LoadQueueVisit(s, w) ==
    LET t    == s.task[w]
        page == t.lq
        d    == page.url.dom
        sm   == t.ctx = "map" IN
    IF ~should_visit(page.url, sm) THEN s
    ELSE LET new  == ~HasFrontier(s.dq, d)
             q0   == IF new THEN EmptyQueue ELSE s.dq[d].q
             item == [page EXCEPT !.oid = q0.counter + 1, !.sm = sm]
             cost == IF sm THEN map_queue_weight(page.url)
                     ELSE queue_weight(page.url) IN
         [s EXCEPT !.dq[d] = [has |-> TRUE, q |-> QueuePush(q0, item, cost)],
                   !.ev = IF new THEN Append(@, d) ELSE @,
                   !.task[w] = Effect(t)]

\* priority_crawl up to its first await (line 184)
PriorityCrawl(s, w) ==
    LoadQueueCall([s EXCEPT !.task[w].maps = <<>>, !.task[w].mpos = 0,
                            !.task[w].found = {}, !.task[w].links = <<>>,
                            !.task[w].passed = <<>>],
                  w, Page(Root(s.task[w].origin), "target"), "root")

\* a sitemap loop that is left before its first sitemap
NextMapLeaves(s, w) == PriorityCrawl(s, w)

\* the head of the sitemap loop (lines 127-131): WebSet.__next__, the sleep,
\* the download; after the last sitemap crawl_domain goes on (line 254)
NextMap(s, w) ==
    LET t == s.task[w]
        i == t.mpos + 1 IN
    IF i > Len(t.maps) THEN PriorityCrawl(s, w)
    ELSE FetchStart([s EXCEPT !.task[w].mpos = i, !.task[w].links = <<>>,
                              !.task[w].lq = NoPage],
                    w, "map", FALSE, TRUE)

\* `await politeness`: a sleep that has completed does not suspend the task
AwaitPoliteness(s, w, ctx) ==
    IF s.task[w].politeness = "done"
    THEN CASE ctx = "page" -> NextIteration(s, w)
           [] ctx = "map"  -> NextMap(s, w)
           [] OTHER        -> FetchStart(s, w, "page", TRUE, TRUE)
    ELSE [s EXCEPT !.task[w].pc = "sleep", !.task[w].ctx = ctx]

\* the link loop of priority_crawl (lines 226-230)
RECURSIVE ProcessLinks(_, _)
ProcessLinks(s, w) ==
    LET t == s.task[w] IN
    IF t.links = <<>> THEN AwaitPoliteness(s, w, "page")
    ELSE LET elem == Head(t.links)
             s1   == [s EXCEPT !.task[w].links = Tail(t.links)] IN
         IF ~contains_url(s.vis, elem) /\ RobotsAllow(s, elem)
         THEN LoadQueueCall(s1, w, Page(elem, "target"), "link")
         ELSE ProcessLinks(s1, w)

\* the urlset loop of update_queue_from_sitemap (lines 152-160)
RECURSIVE ProcessMapLinks(_, _)
ProcessMapLinks(s, w) ==
    LET t == s.task[w] IN
    IF t.links = <<>> THEN AwaitPoliteness(s, w, "map")
    ELSE LET link == Head(t.links)
             s1   == [s EXCEPT !.task[w].links = Tail(t.links)] IN
         IF /\ ~contains_url(s.vis, link)
            /\ RobotsAllow(s, link)
            /\ link \notin t.found
         THEN LoadQueueCall([s1 EXCEPT !.task[w].passed = Append(@, link)],
                            w, Page(link, "target"), "map")
         ELSE ProcessMapLinks(s1, w)

\* maps.add(WebMap(...)) for every child of a sitemap index (lines 147-149)
RECURSIVE AddMaps(_, _)
AddMaps(maps, children) ==
    IF children = <<>> THEN maps
    ELSE AddMaps(WebSetAdd(maps, Page(Head(children), "map")), Tail(children))

\* a sitemap was downloaded (lines 139-160)
MapOk(s, w) ==
    LET t  == s.task[w]
        m  == [t.maps[t.mpos] EXCEPT !.parsed = TRUE]
        sm == WebSitemap(m.url)
        s1 == [s EXCEPT !.vis = WebSetAdd(@, m)] IN
    IF sm.map_of_maps
    THEN AwaitPoliteness([s1 EXCEPT !.task[w].maps = AddMaps(@, sm.maps)],
                         w, "map")
    ELSE ProcessMapLinks([s1 EXCEPT !.task[w].links = sm.links], w)

\* a delay taken from robots.txt as it is
crawl_delay_raw(delay) == delay

\* `policy.default_delay if delay is None or delay <= 0 else delay` (line
\* 250); search_robots answers None as a delay of 0 here
crawl_delay(delay) == IF delay <= 0 THEN DefaultDelay ELSE delay

\* search_robots has its answer (lines 84-118) and crawl_domain goes on
\* (lines 250-254).  The robots page is added to the visited set whether or
\* not it was downloaded.
RobotsDone(s, w, ok) ==
    LET t     == s.task[w]
        o     == t.origin
        f     == WebRobotsFile(o)
        robot == [Page(Url(o, RobotsPath), "robots") EXCEPT !.parsed = ok]
        s1    == [s EXCEPT !.vis = WebSetAdd(@, robot),
                           !.task[w].delay = crawl_delay(0)] IN
    IF ok
    THEN LET prohibs == CHOOSE l \in SortedByLenDesc(f.prohibited) : TRUE
             allows  == CHOOSE l \in SortedByLenDesc(f.allowed) : TRUE
             s2 == [s1 EXCEPT
                      !.rl[o] = [has |-> TRUE,
                                 list |-> add_rules(prohibs, allows)],
                      !.task[w].delay = crawl_delay(f.polite_delay)] IN
         IF f.sitemap # <<>>
         THEN NextMap([s2 EXCEPT
                         !.task[w].maps = [i \in 1..Len(f.sitemap) |->
                                              Page(f.sitemap[i], "map")],
                         !.task[w].mpos = 0,
                         !.task[w].found = {}], w)
         ELSE PriorityCrawl(s2, w)
    ELSE PriorityCrawl(s1, w)

\* a page was downloaded (lines 201-223).  canonical_url() builds
\* URL(href) with no base page, which raises MalformedURLException for an
\* href that is not absolute; the exception leaves the iteration.
PageOk(s, w) ==
    LET t   == s.task[w]
        x   == [t.target EXCEPT !.parsed = TRUE]
        u   == x.url
        can == WebCanonical(u) IN
    IF violate_duplicate_policy(policy.duplicate_sensibility, s.vis, x) # "false"
    THEN NextIteration(s, w)
    ELSE LET s1  == [s EXCEPT !.vis = WebSetAdd(@, x),
                              !.task[w] = [Effect(t) EXCEPT !.saving = TRUE,
                                                            !.target = x,
                                                            !.canon = NoCanon]]
             due == /\ ~contains_url(s1.vis, can.url)
                    /\ RobotsAllow(s1, can.url)
             s2  == [s1 EXCEPT !.task[w].canon =
                        IF IsHtml(u) /\ policy.canonical_url
                           /\ can.has /\ can.url # u
                        THEN [declared |-> TRUE, page |-> u, due |-> due,
                              passed |-> can.absolute /\ due]
                        ELSE NoCanon] IN
         IF ~IsHtml(u)
         THEN [s2 EXCEPT !.task[w].pc = "save", !.task[w].ctx = "none"]
         ELSE IF can.has /\ ~can.absolute
         THEN NextIteration(s2, w)
         ELSE IF policy.canonical_url /\ can.has /\ can.url # u /\ due
         THEN LoadQueueCall(s2, w, Page(can.url, "target"), "canon")
         ELSE [s2 EXCEPT !.task[w].pc = "save", !.task[w].ctx = "none"]

\* `await savepage` returned (lines 223-230)
SaveOk(s, w) ==
    LET u  == s.task[w].target.url
        s1 == [s EXCEPT !.task[w].saving = FALSE] IN
    IF should_crawl(u)
    THEN ProcessLinks([s1 EXCEPT !.task[w].links = WebLinks(u)], w)
    ELSE NextIteration(s1, w)

\* load_queue returned to its caller
LoadQueueReturns(s, w) ==
    LET t == s.task[w] IN
    CASE t.ctx = "root"  -> EnterLoop(s, w)
      [] t.ctx = "canon" -> [s EXCEPT !.task[w].pc = "save",
                                      !.task[w].ctx = "none"]
      [] t.ctx = "link"  -> ProcessLinks(s, w)
      [] OTHER           -> ProcessMapLinks(
                               [s EXCEPT !.task[w].found = @ \cup {t.lq.url}], w)

\* an exception leaves load_queue: line 184 is outside every try; in the two
\* loops `finally: continue` drops it
LoadQueueRaises(s, w, how) ==
    LET t == s.task[w] IN
    CASE t.ctx = "root" -> Finish(s, w, how)
      [] t.ctx = "map"  -> NextMap(s, w)
      [] OTHER          -> NextIteration(s, w)

\* ------------------------------------------------------------------------
\* The state after construction, component by component
\* ------------------------------------------------------------------------
\* ------------------------------------------------------------------------
\* WebPage (web.py): the fetch of one page.  A Location header value is an
\* absolute URL or an absolute path; the head and the body remember the URL
\* whose response they were taken from.
\* ------------------------------------------------------------------------
MaxRequests == 3

PageUrls == {A0, A1, B0, B1}
NoLocation == [abs |-> FALSE, dom |-> "none", path |-> <<>>]
Locations ==
    {[abs |-> TRUE, dom |-> u.dom, path |-> u.path] : u \in PageUrls}
    \cup {[abs |-> FALSE, dom |-> "", path |-> u.path] : u \in PageUrls}
Statuses == {200, 204, 301, 304, 404}

\* the same constructor if it kept the page's URL
URLKeepsPage(newurl, from_page) == from_page

\* URL(newurl, from_page=self.url): an absolute URL stands for itself, a path
\* is joined to the origin of from_page
URLFromPage(newurl, from_page) ==
    IF newurl.abs THEN Url(newurl.dom, newurl.path)
    ELSE Url(from_page.dom, newurl.path)

Absent == [has |-> FALSE, url |-> A0]
NoRequest == [kind |-> "none", url |-> A0, without_ssl |-> FALSE]

\* WebPage.__init__
NewWebPage(u) == [url |-> u, head |-> Absent, text |-> Absent, last_modify |-> "None"]

\* the page, its pending request, its request count and how the call ended
PageState == [page |-> web_page, request |-> pg_request, requests |-> requests,
              outcome |-> "returned", status |-> 0]

SendRequest(P, kind, without_ssl) ==
    [P EXCEPT !.request = [kind |-> kind, url |-> P.page.url, without_ssl |-> without_ssl],
              !.requests = @ + 1,
              !.outcome = "pending"]

Raise(P, exception, status) ==
    [P EXCEPT !.request = NoRequest, !.outcome = exception, !.status = status]

\* parse_web_date returns None whatever the header says (`finally: return None`)
set_head(pg, u) ==
    [pg EXCEPT !.head = [has |-> TRUE, url |-> u], !.last_modify = "None"]

set_content(pg, u) == [pg EXCEPT !.text = [has |-> TRUE, url |-> u]]

\* download() that sends its GET whether or not the body is there
downloadAlways(P, without_ssl) == SendRequest(P, "get", without_ssl)

\* download(), up to its request
download(P, without_ssl) ==
    IF ~P.page.text.has THEN SendRequest(P, "get", without_ssl)
    ELSE [P EXCEPT !.outcome = "returned"]

\* get_header_info(), up to its request
get_header_info(P, without_ssl) ==
    IF ~P.page.head.has THEN SendRequest(P, "head", without_ssl)
    ELSE [P EXCEPT !.outcome = "returned"]

\* the 3xx branch shared by get_header_info and download
Redirected(P, status, location) ==
    IF status = 304 THEN Raise(P, "ResponseStatusNotModified", status)
    ELSE IF location # NoLocation
    THEN download([P EXCEPT !.request = NoRequest,
                            !.page.url = URLFromPage(location, P.page.url)],
                  FALSE)
    ELSE Raise(P, "ResponseStatusException", status)

\* get_header_info() from the response of its HEAD on
HeadAnswered(P, status, location) ==
    IF status = 200
    THEN [P EXCEPT !.page = set_head(@, P.request.url),
                   !.request = NoRequest, !.outcome = "returned"]
    ELSE IF status \div 100 = 3 THEN Redirected(P, status, location)
    ELSE Raise(P, "ResponseStatusException", status)

\* download() from the response of its GET on
GetAnswered(P, status, location) ==
    IF status \div 100 = 2
    THEN [P EXCEPT !.page = set_content(set_head(@, P.request.url), P.request.url),
                   !.request = NoRequest, !.outcome = "returned"]
    ELSE IF status \div 100 = 3 THEN Redirected(P, status, location)
    ELSE Raise(P, "ResponseStatusException", status)

NoLast == [op |-> "new", status |-> 0, location |-> NoLocation,
           before |-> NewWebPage(A0), requests |-> 0,
           outcome |-> "returned", raised |-> 0, chain |-> <<>>]

PgIdle ==
    /\ web_page = NewWebPage(A0)
    /\ pg_request = NoRequest
    /\ requests = 0
    /\ pg_last = NoLast

\* ------------------------------------------------------------------------
\* DysderaParser.simhash / simhash_distance (parser.py:126-147) and the
\* duplicate tests of WebPage and WebSet on downloaded pages.  A content is
\* a text, a list of words, or bytes.  md5 of a word is an integer of which
\* the low HashSize bits are kept; HashSize stands for the default size.
\* ------------------------------------------------------------------------
MaxWords == 3
HashSize == 3
MaxObjects == 2
MaxDistance == 1

Words == {"x", "y"}
Texts == UNION {[1..n -> Words] : n \in 0..MaxWords}
Objects == 1..MaxObjects

\* int(md5(word).hexdigest(), 16), low bits
Md5(word) == IF word = "x" THEN 5 ELSE 3

Bit(n, i) == (n \div (2 ^ i)) % 2

\* hashes[i] after the loop over the words
RECURSIVE Accumulate(_, _)
Accumulate(text, i) ==
    IF text = <<>> THEN 0
    ELSE Bit(Md5(Head(text)), i) * 2 - 1 + Accumulate(Tail(text), i)

RECURSIVE SetBits(_, _, _)
SetBits(text, i, hash_size) ==
    IF i >= hash_size THEN 0
    ELSE (IF Accumulate(text, i) > 0 THEN 2 ^ i ELSE 0)
         + SetBits(text, i + 1, hash_size)

NoHash == [has |-> FALSE, val |-> 0]
NewParser(text, bytes) == [text |-> text, bytes |-> bytes, s_hash |-> NoHash]

\* simhash(hash_size): the parser after the call and the value returned,
\* which is the sha256 object for bytes
simhash(parser, hash_size) ==
    IF parser.bytes THEN [parser |-> parser, sha |-> TRUE, val |-> 0]
    ELSE LET q == IF ~parser.s_hash.has
                  THEN [parser EXCEPT !.s_hash =
                           [has |-> TRUE, val |-> SetBits(parser.text, 0, hash_size)]]
                  ELSE parser IN
         [parser |-> q, sha |-> FALSE, val |-> q.s_hash.val]

Popcount(a, b) == Cardinality({i \in 0..(HashSize - 1) : Bit(a, i) # Bit(b, i)})

TypeError == -1

\* self.simhash_distance(ant, size) on the parsers ps[self], ps[ant]:
\* ant.simhash(size) ^ self.simhash(size); `^` raises TypeError on a sha256
simhash_distance(ps, self, ant, size) ==
    LET r1  == simhash(ps[ant], size)
        ps1 == [ps EXCEPT ![ant] = r1.parser]
        r2  == simhash(ps1[self], size)
        ps2 == [ps1 EXCEPT ![self] = r2.parser] IN
    [ps |-> ps2,
     d  |-> IF r1.sha \/ r2.sha THEN TypeError ELSE Popcount(r1.val, r2.val)]

\* the comparison of near_duplicate if it were not strict
WithinInclusive(d, max_dist) == d <= max_dist

\* the comparison of near_duplicate
Within(d, max_dist) == d < max_dist

\* the page object number i: downloaded, with a URL of its own
ShPage(i) ==
    [Page(Url("a", [k \in 1..i |-> "a"]), "target") EXCEPT !.parsed = TRUE, !.oid = i]

\* WebSet.contains_nearduplicate(item, max_distance) with the default
\* size_hash of near_duplicate: the parsers after the call and "true",
\* "false" or "TypeError"
RECURSIVE contains_nearduplicate(_, _, _, _)
contains_nearduplicate(items, ps, item, max_distance) ==
    IF items = <<>> THEN [ps |-> ps, res |-> "false"]
    ELSE LET r == simhash_distance(ps, Head(items).oid, item, HashSize) IN
         IF r.d = TypeError THEN [ps |-> r.ps, res |-> "TypeError"]
         ELSE IF Within(r.d, max_distance) THEN [ps |-> r.ps, res |-> "true"]
         ELSE contains_nearduplicate(Tail(items), r.ps, item, max_distance)

NoShCall == [op |-> "none", a |-> 1, b |-> 1, size |-> 0, val |-> 0,
             d_ab |-> 0, d_ba |-> 0, dup |-> "false", near |-> "false",
             before |-> NoHash]

ShIdle ==
    /\ parsers = [i \in Objects |-> NewParser(<<>>, FALSE)]
    /\ sh_items = <<>>
    /\ sh_last = NoShCall

\* ------------------------------------------------------------------------
\* URL (parser.py:24-98) with its fragment: the string handed to URL() has a
\* scheme, a host, a path, a query and a fragment; `parsed` is the
\* ParseResult, its scheme replaced by https.
\* ------------------------------------------------------------------------
LinkStrings ==
    [scheme : {"http", "https"}, netloc : {"a"}, path : {<<>>, <<"a">>},
     query : {"", "q"}, fragment : {"", "f"}]

\* URL.__init__ on an absolute link
URLParsed(link) == [link EXCEPT !.scheme = "https"]

\* URL.__eq__: netloc, path and query
URLEq(a, b) == a.netloc = b.netloc /\ a.path = b.path /\ a.query = b.query

\* a hash of what __eq__ compares
URLHashOfEq(a) == <<a.netloc, a.path, a.query>>

\* URL.__hash__: the hash of the whole ParseResult; two ParseResults hash
\* alike when they are equal tuples
URLHash(a) == <<a.scheme, a.netloc, a.path, a.query, a.fragment>>

\* `link in found` for a Python set: an element of the same hash that is
\* equal to link
InSet(set, a) == \E e \in set : URLHash(e) = URLHash(a) /\ URLEq(e, a)

\* found.add(link)
SetAdd(set, a) == IF InSet(set, a) THEN set ELSE set \cup {a}

NoLink == [has |-> FALSE, link |-> URLParsed(CHOOSE l \in LinkStrings : TRUE),
           added |-> FALSE]

UrlIdle ==
    /\ found = {}
    /\ url_last = NoLink

\* ------------------------------------------------------------------------
\* RobotsParser.parse (parser.py:426-463).  A robots.txt is a list of lines;
\* a line is blank (or a comment), a User-agent line naming the crawler's
\* agent or another one, a Disallow, Allow or Crawl-delay line, a Sitemap
\* line, or a line of a directive the parser does not know.
\* ------------------------------------------------------------------------
MaxLines == 4

RobotsLines ==
    {[kind |-> "blank", val |-> 0],
     [kind |-> "user-agent", val |-> 1],     \* User-agent: *
     [kind |-> "user-agent", val |-> 2],     \* User-agent: other
     [kind |-> "disallow", val |-> 1],
     [kind |-> "disallow", val |-> 2],
     [kind |-> "allow", val |-> 1],
     [kind |-> "crawl-delay", val |-> 3],
     [kind |-> "sitemap", val |-> 1],
     [kind |-> "sitemap", val |-> 2],
     [kind |-> "unknown", val |-> 0]}

RobotsTexts == UNION {[1..n -> RobotsLines] : n \in 0..MaxLines}

\* as_agent = ["*"]: the labels of the caller
AsAgent == {1}

\* RobotsParser.__init__ (lines 419-424); polite_delay None is 0
NewRobotsParser ==
    [sitemap |-> {}, prohibited |-> {}, allowed |-> {}, polite_delay |-> 0,
     parsed |-> FALSE]

\* `elif lines[i].lower().startswith("sitemap:")` (line 457): the index of
\* the line the test reads
SitemapTestIndex(i, j) == i

\* the inner loop `for j in range(i, len(lines))` (lines 442-461); i is the
\* local i of parse, which the body sets to j - 1
RECURSIVE ParseBlock(_, _, _, _)
ParseBlock(lines, i, j, P) ==
    IF j > Len(lines) THEN P
    ELSE LET l == lines[j]
             t == lines[SitemapTestIndex(i, j)] IN
         IF l.kind = "blank" THEN ParseBlock(lines, i, j + 1, P)
         ELSE IF l.kind = "disallow"
         THEN ParseBlock(lines, j - 1, j + 1,
                         [P EXCEPT !.prohibited = @ \cup {l.val}])
         ELSE IF l.kind = "allow"
         THEN ParseBlock(lines, j - 1, j + 1,
                         [P EXCEPT !.allowed = @ \cup {l.val}])
         ELSE IF l.kind = "crawl-delay"
         THEN ParseBlock(lines, j - 1, j + 1, [P EXCEPT !.polite_delay = l.val])
         ELSE IF t.kind = "sitemap"
         THEN ParseBlock(lines, j - 1, j + 1,
                         [P EXCEPT !.sitemap = @ \cup {t.val}])
         ELSE IF l.kind \in {"user-agent", "sitemap"} THEN P
         ELSE ParseBlock(lines, j - 1, j + 1, P)

\* the outer loop `for i in range(len(lines))` (lines 435-463): range() hands
\* out the next index whatever the body has assigned to i
RECURSIVE ParseLines(_, _, _)
ParseLines(lines, i, P) ==
    IF i > Len(lines) THEN P
    ELSE LET l == lines[i] IN
         IF l.kind = "blank" THEN ParseLines(lines, i + 1, P)
         ELSE IF l.kind = "user-agent"
         THEN IF l.val \in AsAgent
              THEN ParseLines(lines, i + 1, ParseBlock(lines, i + 1, i + 1, P))
              ELSE ParseLines(lines, i + 1, P)
         ELSE IF l.kind = "sitemap"
         THEN ParseLines(lines, i + 1, [P EXCEPT !.sitemap = @ \cup {l.val}])
         ELSE ParseLines(lines, i + 1, P)

\* RobotsParser.parse(url, as_agent)
parse(lines, P) == [ParseLines(lines, 1, P) EXCEPT !.parsed = TRUE]

RpIdle ==
    /\ rp_lines = <<>>
    /\ rp_parser = NewRobotsParser

\* the sitemap URLs of "b" and what may be served at each: a urlset, or an
\* index of at most MaxChildren children, which may repeat and may name the
\* index itself or an index that names it
MaxChildren == 2
MaxFetches == 4

SitemapUrls == {Url("b", SitemapPath), Url("b", SitemapPath2), Url("b", <<"u">>)}

ChildLists ==
    UNION {[1..n -> SitemapUrls] : n \in 0..MaxChildren}

SitemapFiles ==
    {[map_of_maps |-> FALSE, maps |-> <<>>]}
    \cup {[map_of_maps |-> TRUE, maps |-> c] : c \in ChildLists}

SmIdle ==
    /\ sm_web = [u \in SitemapUrls |-> [map_of_maps |-> FALSE, maps |-> <<>>]]
    /\ sm_maps = <<>>
    /\ sm_pos = 0
    /\ sm_pc = "done"
    /\ sm_log = <<>>

AuxIdle == RpIdle /\ SmIdle

FnIdle == PgIdle /\ ShIdle /\ UrlIdle /\ AuxIdle

RbIdle ==
    /\ rb_prohibited = {}
    /\ rb_allowed = {}
    /\ rb_result = NoCall

WqInit ==
    /\ wq = EmptyQueue
    /\ wq_pushed = 0
    /\ wq_popped = <<>>

WsInit == ws_op = [name |-> "init", n |-> 0]

\* DysderaCrawler.__init__ (dysderacrawler.py:20-31): empty visited set, rule
\* database, frontier map and event queue
SessionInit ==
    /\ visited = <<>>
    /\ rules = [o \in Origins |-> NoRules]

CrIdle ==
    /\ policy = DefaultPolicy
    /\ domains_queues = [o \in Origins |-> NoQueue]
    /\ event_queue = <<>>
    /\ premature_end = FALSE
    /\ dpc = "init"
    /\ all_sub_task = <<>>
    /\ task = [w \in Tasks |-> Unborn]
    /\ polite = [o \in Origins |-> TRUE]
    /\ faults = 0

\* ------------------------------------------------------------------------
\* The robots specification: a robots file is parsed into sets of prefixes,
\* add_rules stores it, is_respected is asked about paths.
\* ------------------------------------------------------------------------
RuleSets == {S \in SUBSET Strings : Cardinality(S) <= MaxRuleSet}

RbInit ==
    /\ FnIdle /\ WqInit /\ WsInit /\ CrIdle /\ SessionInit
    /\ rb_prohibited \in RuleSets
    /\ rb_allowed \in RuleSets
    /\ rb_result = NoCall

RbAddRules ==
    /\ \E prohibs \in SortedByLenDesc(rb_prohibited),
          allows \in SortedByLenDesc(rb_allowed) :
          rules' = [rules EXCEPT !["a"] =
                       [has |-> TRUE, list |-> add_rules(prohibs, allows)]]
    /\ rb_result' = NoCall
    /\ UNCHANGED <<rbIn, notRbVars>>

RbIsRespected ==
    /\ \E dom \in Origins, path \in Strings :
          rb_result' = [called |-> TRUE, dom |-> dom, path |-> path,
                        permitted |-> is_respected(rules, dom, path)]
    /\ UNCHANGED <<rules, rbIn, notRbVars>>

\* delete_rules(ruler): dict.pop of a domain that has rules
RbDeleteRules ==
    /\ \E dom \in Origins :
          /\ rules[dom].has
          /\ rules' = [rules EXCEPT ![dom] = NoRules]
    /\ rb_result' = NoCall
    /\ UNCHANGED <<rbIn, notRbVars>>

RbNext == RbAddRules \/ RbIsRespected \/ RbDeleteRules

SpecRobots == RbInit /\ [][RbNext]_vars

\* ------------------------------------------------------------------------
\* C9.  is_permitted is true when the origin has no rule set; true when no
\* disallow prefix is a prefix of the path; and when some disallow prefix is
\* a prefix of the path, true if and only if some allow prefix of the robots
\* file lying under the matching (longest) disallow is also a prefix of the
\* path.
\* ------------------------------------------------------------------------
MatchingDisallows(path) == {d \in rb_prohibited : StartsWith(path, d)}

ControllingDisallow(path) ==
    CHOOSE d \in MatchingDisallows(path) :
        \A e \in MatchingDisallows(path) : Len(e) <= Len(d)

ClaimedPermitted(dom, path) ==
    IF ~rules[dom].has THEN TRUE
    ELSE IF MatchingDisallows(path) = {} THEN TRUE
    ELSE \E a \in rb_allowed :
            /\ StartsWith(a, ControllingDisallow(path))
            /\ StartsWith(path, a)

C9_IsPermittedAsSpecified ==
    rb_result.called =>
        rb_result.permitted = ClaimedPermitted(rb_result.dom, rb_result.path)

\* where the stored rule list holds the allow prefix: <<rule, position>>
StoredAt(list, a) ==
    {ik \in (1..Len(list)) \X (1..MaxRuleSet) :
        /\ ik[2] <= Len(list[ik[1]].allowed)
        /\ list[ik[1]].allowed[ik[2]] = a}

LongestDisallowOf(a) ==
    CHOOSE d \in rb_prohibited :
        /\ StartsWith(a, d)
        /\ \A e \in rb_prohibited : StartsWith(a, e) => Len(e) <= Len(d)

\* C20: after add_rules, every allow prefix that has a disallow prefix as its
\* own prefix is stored exactly once, in the rule of the longest disallow
\* prefix that is its prefix, and the rules are in descending order of the
\* length of their disallow prefix.
C20_AllowsKeptUnderLongestDisallow ==
    rules["a"].has =>
        LET list == rules["a"].list IN
        /\ \A a \in rb_allowed :
              (\E d \in rb_prohibited : StartsWith(a, d)) =>
                  /\ Cardinality(StoredAt(list, a)) = 1
                  /\ \A ik \in StoredAt(list, a) :
                        list[ik[1]].proh = LongestDisallowOf(a)
        /\ \A i, j \in 1..Len(list) :
              i < j => Len(list[i].proh) >= Len(list[j].proh)

\* ------------------------------------------------------------------------
\* The frontier specification: one WebQueue, pushes with any costs and pops
\* in any interleaving.  An item carries the cost its cost function gives it
\* (c) and the ordinal of its push (n), which only the properties read.
\* ------------------------------------------------------------------------
WqStart == WqInit /\ RbIdle /\ WsInit /\ CrIdle /\ SessionInit /\ FnIdle

WqPush ==
    /\ wq_pushed < MaxPush
    /\ \E c \in 0..MaxCost :
          wq' = QueuePush(wq, [n |-> wq_pushed + 1, c |-> c], c)
    /\ wq_pushed' = wq_pushed + 1
    /\ wq_popped' = <<>>
    /\ UNCHANGED notWqVars

\* pop() raises IndexError, and __next__ StopIteration, on an empty queue
WqPop ==
    /\ ~QueueIsEmpty(wq)
    /\ wq' = QueuePop(wq).queue
    /\ wq_popped' = Append(wq_popped, QueuePop(wq).item)
    /\ UNCHANGED <<wq_pushed, notWqVars>>

WqNext == WqPush \/ WqPop

SpecQueue == WqStart /\ [][WqNext]_vars

\* ------------------------------------------------------------------------
\* C7.  Each pop returns an item of minimal cost among the items held at that
\* moment and, among those of minimal cost, the one pushed earliest; so the
\* items popped without a push in between come out in non-decreasing cost,
\* equal costs in insertion order.
\* ------------------------------------------------------------------------
ItemBefore(x, y) == x.c < y.c \/ (x.c = y.c /\ x.n < y.n)

C7_PopsMinCostFifo ==
    /\ \A i \in 1..(Len(wq_popped) - 1) : ItemBefore(wq_popped[i], wq_popped[i + 1])
    /\ wq_popped # <<>> =>
          \A k \in 1..Len(wq.heap) :
              ItemBefore(wq_popped[Len(wq_popped)], wq.heap[k].item)

\* pushes of costs high, low, low, middle popped as low, low, middle, high
C7_Witness ==
    /\ Len(wq_popped) = 4
    /\ [i \in 1..4 |-> wq_popped[i].n] = <<2, 3, 4, 1>>
    /\ [i \in 1..4 |-> wq_popped[i].c] = <<0, 0, 1, 2>>

\* ------------------------------------------------------------------------
\* The visited-set specification: one WebSet driven through add, remove and
\* reset with any pages.
\* ------------------------------------------------------------------------
SetUrls == {[dom |-> d, path |-> p] : d \in Origins, p \in {<<>>, <<"a">>}}

SetPages == {[url |-> u, parsed |-> b] : u \in SetUrls, b \in BOOLEAN}

WsStart == WsInit /\ RbIdle /\ WqInit /\ CrIdle /\ SessionInit /\ FnIdle

WsAdd ==
    /\ ws_op.n < MaxSetOps
    /\ \E e \in SetPages : visited' = WebSetAdd(visited, e)
    /\ ws_op' = [name |-> "add", n |-> ws_op.n + 1]
    /\ UNCHANGED notWsVars

WsRemove ==
    /\ ws_op.n < MaxSetOps
    /\ \E e \in SetPages : visited' = WebSetRemove(visited, e)
    /\ ws_op' = [name |-> "remove", n |-> ws_op.n + 1]
    /\ UNCHANGED notWsVars

WsReset ==
    /\ ws_op.n < MaxSetOps
    /\ visited' = WebSetReset(visited)
    /\ ws_op' = [name |-> "reset", n |-> ws_op.n + 1]
    /\ UNCHANGED notWsVars

WsNext == WsAdd \/ WsRemove \/ WsReset

SpecWebSet == WsStart /\ [][WsNext]_vars

StaysContained == \A u \in SetUrls : contains_url(visited, u) => contains_url(visited', u)

Init ==
    /\ RbIdle /\ WqInit /\ WsInit /\ SessionInit /\ FnIdle
    /\ policy \in Policies
    /\ domains_queues = [o \in Origins |-> NoQueue]
    /\ event_queue = <<>>
    /\ premature_end = FALSE
    /\ dpc = "init"
    /\ all_sub_task = <<>>
    /\ task = [w \in Tasks |-> Unborn]
    /\ polite = [o \in Origins |-> TRUE]
    /\ faults = 0

\* the answer to a request, or the return of the extractor: it is a failure
\* only while fewer than MaxFaults requests and calls of the crawl have failed
Answer(o) ==
    /\ o # "ok" => faults < MaxFaults
    /\ faults' = IF o = "ok" THEN faults ELSE faults + 1

CommitSession(s) ==
    /\ task' = s.task
    /\ domains_queues' = s.dq
    /\ event_queue' = s.ev
    /\ visited' = s.vis
    /\ rules' = s.rl
    /\ polite' = s.pol

Commit(s) ==
    /\ CommitSession(s)
    /\ UNCHANGED <<policy, premature_end, dpc, all_sub_task>>
    /\ UNCHANGED notCrVars

Running(w, pc) ==
    /\ task[w].st = "live"
    /\ task[w].pc = pc

\* asyncio.create_task(self.crawl_domain(session, domain, policy, extractor)):
\* the task runs up to the GET of robots.txt
NewTask(o) ==
    [Unborn EXCEPT !.st = "live", !.origin = o, !.pc = "get", !.ctx = "robots"]

RobotsStep(s, w, o) ==
    IF o = "ok" THEN RobotsDone(s, w, TRUE)
    ELSE IF o = "ssl" /\ ~s.task[w].retry /\ policy.force_without_ssl
         THEN [s EXCEPT !.task[w].retry = TRUE]
         ELSE RobotsDone(s, w, FALSE)

SitemapStep(s, w, o) ==
    IF o = "ok" THEN MapOk(s, w)
    ELSE IF o = "ssl" /\ ~s.task[w].retry /\ policy.force_without_ssl
         THEN FetchStart(s, w, "map", TRUE, FALSE)
         ELSE NextMap(s, w)

\* a download whose outcome is not looked at
PageStepIgnoresStatus(s, w, o) == PageOk(s, w)

\* a priority crawl that retries without TLS verification at once
PageStepRetriesAtOnce(s, w, o) ==
    IF o = "ok" THEN PageOk(s, w)
    ELSE IF o = "ssl" /\ ~s.task[w].retry /\ policy.force_without_ssl
         THEN FetchStart(s, w, "page", TRUE, FALSE)
         ELSE NextIteration(s, w)

\* the answer to target.download() in priority_crawl (lines 190-200) and the
\* handlers of lines 231-245
PageStep(s, w, o) ==
    IF o = "ok" THEN PageOk(s, w)
    ELSE IF o = "ssl" /\ ~s.task[w].retry /\ policy.force_without_ssl
         THEN AwaitPoliteness(s, w, "ssl")
         ELSE NextIteration(s, w)

\* load_queue, lines 43-57: what is raised by the request of line 47 is
\* raised inside an except clause, and no clause of the statement catches it
HeadStep(s, w, o) ==
    IF o = "ok" THEN LoadQueueReturns(LoadQueueVisit(s, w), w)
    ELSE IF s.task[w].retry THEN LoadQueueRaises(s, w, "error")
    ELSE IF o \in SilentInHead THEN LoadQueueReturns(s, w)
    ELSE IF o = "ssl"
         THEN IF policy.force_without_ssl
              THEN [s EXCEPT !.task[w].retry = TRUE]
              ELSE LoadQueueReturns(s, w)
         ELSE LoadQueueRaises(s, w, "error")

\* a CancelledError is raised at the await the task is suspended on
CancelStep(s, w) ==
    LET t == s.task[w] IN
    CASE t.pc = "get" /\ t.ctx = "robots" -> RobotsDone(s, w, FALSE)
      [] t.pc = "get" /\ t.ctx = "map"    -> NextMap(s, w)
      [] t.pc = "sleep" /\ t.ctx = "map"  -> NextMap(s, w)
      [] t.pc = "head"                    -> LoadQueueRaises(s, w, "cancelled")
      [] t.pc = "save"                    ->
             NextIteration([s EXCEPT !.task[w].saving = FALSE], w)
      [] OTHER                            -> NextIteration(s, w)

RobotsResponse(w) ==
    /\ Running(w, "get") /\ task[w].ctx = "robots"
    /\ \E o \in Outcomes : Answer(o) /\ Commit(RobotsStep(Session, w, o))

SitemapResponse(w) ==
    /\ Running(w, "get") /\ task[w].ctx = "map"
    /\ \E o \in Outcomes : Answer(o) /\ Commit(SitemapStep(Session, w, o))

PageResponse(w) ==
    /\ Running(w, "get") /\ task[w].ctx = "page"
    /\ \E o \in Outcomes : Answer(o) /\ Commit(PageStep(Session, w, o))

HeadResponse(w) ==
    /\ Running(w, "head")
    /\ \E o \in Outcomes : Answer(o) /\ Commit(HeadStep(Session, w, o))

\* extractor.extract(target) returns or raises
ExtractorReturns(w) ==
    /\ Running(w, "save")
    /\ \E o \in {"ok", "raised"} :
          /\ Answer(o)
          /\ Commit(IF o = "ok" THEN SaveOk(Session, w)
                    ELSE NextIteration(
                            [Session EXCEPT !.task[w].saving = FALSE], w))

\* the extractor task of a page completes after the loop has left the
\* iteration of that page without awaiting it
ExtractorCompletes(w) ==
    /\ task[w].saving
    /\ ~Running(w, "save")
    /\ Commit([Session EXCEPT !.task[w].saving = FALSE])
    /\ UNCHANGED faults

\* `await politeness` resumes: the sleep has completed.  A request is
\* answered in less time than the politeness delay lasts, so a sleep
\* completes while the task that created it is waiting for it.
PolitenessAwaited(w) ==
    /\ Running(w, "sleep")
    /\ Commit(AwaitPoliteness([Session EXCEPT !.task[w].politeness = "done"],
                              w, task[w].ctx))
    /\ UNCHANGED faults

\* a loop of lines 277-278 that cancels nothing
CancelNone(s, l, i) == s

\* lines 277-278: task.cancel() on every task left in the list.  The
\* CancelledError is thrown into each of them on the next cycle of the event
\* loop, before any pending answer is handled.
RECURSIVE CancelAll(_, _, _)
CancelAll(s, l, i) ==
    IF i > Len(l) THEN s
    ELSE IF s.task[l[i]].st = "live"
         THEN CancelAll(CancelStep([s EXCEPT !.task[l[i]].cancelled = TRUE],
                                   l[i]), l, i + 1)
         ELSE CancelAll(s, l, i + 1)

\* start(), lines 258-269, with an empty event queue
Start ==
    /\ dpc = "init"
    /\ premature_end' = FALSE
    /\ task' = [w \in Tasks |->
                   IF w <= Len(Seeds) THEN NewTask(Seeds[w]) ELSE task[w]]
    /\ all_sub_task' = [i \in 1..Len(Seeds) |-> i]
    /\ dpc' = "sleeping"
    /\ UNCHANGED <<policy, domains_queues, event_queue, polite, faults,
                   visited, rules>>
    /\ UNCHANGED notCrVars

\* a pass that removes no task from the list
ReapNothing(l, i) == l

\* lines 270-272: the list is changed while it is iterated
RECURSIVE Reap(_, _)
Reap(l, i) ==
    IF i > Len(l) THEN l
    ELSE IF IsDone(task[l[i]]) THEN Reap(ListRemove(l, l[i]), i + 1)
         ELSE Reap(l, i + 1)

NextTaskId == CHOOSE w \in Tasks : task[w].st = "unborn" /\
                                   \A v \in Tasks : v < w => task[v].st # "unborn"

\* start() resumes from asyncio.sleep(10): lines 270-278 and 263-269
Wake ==
    /\ dpc = "sleeping"
    /\ LET reaped == Reap(all_sub_task, 1) IN
       IF Len(reaped) < 1 \/ premature_end
       THEN /\ dpc' = "returned"
            /\ all_sub_task' = reaped
            /\ CommitSession(CancelAll(Session, reaped, 1))
       ELSE /\ dpc' = "sleeping"
            /\ IF event_queue # <<>>
               THEN /\ event_queue' = Tail(event_queue)
                    /\ task' = [task EXCEPT ![NextTaskId] =
                                               NewTask(Head(event_queue))]
                    /\ all_sub_task' = Append(reaped, NextTaskId)
               ELSE /\ all_sub_task' = reaped
                    /\ UNCHANGED <<event_queue, task>>
            /\ UNCHANGED <<domains_queues, polite, visited, rules>>
    /\ UNCHANGED <<policy, premature_end, faults>>
    /\ UNCHANGED notCrVars

\* terminate(), lines 281-283
Terminate ==
    /\ dpc = "sleeping"
    /\ ~premature_end
    /\ premature_end' = TRUE
    /\ UNCHANGED <<policy, domains_queues, event_queue, dpc, all_sub_task,
                   task, polite, faults, visited, rules>>
    /\ UNCHANGED notCrVars

Next ==
    \/ Start
    \/ Wake
    \/ Terminate
    \/ \E w \in Tasks : RobotsResponse(w)
    \/ \E w \in Tasks : SitemapResponse(w)
    \/ \E w \in Tasks : PageResponse(w)
    \/ \E w \in Tasks : HeadResponse(w)
    \/ \E w \in Tasks : ExtractorReturns(w)
    \/ \E w \in Tasks : ExtractorCompletes(w)
    \/ \E w \in Tasks : PolitenessAwaited(w)

Spec == Init /\ [][Next]_vars

\* the steps of one worker: the completion of the request, of the sleep or
\* of the extractor call it awaits
WorkerStep(w) ==
    \/ RobotsResponse(w)
    \/ SitemapResponse(w)
    \/ PageResponse(w)
    \/ HeadResponse(w)
    \/ ExtractorReturns(w)
    \/ ExtractorCompletes(w)
    \/ PolitenessAwaited(w)

\* a crawl on which terminate() is never called
NextCrawl ==
    \/ Start
    \/ Wake
    \/ \E w \in Tasks : WorkerStep(w)

\* a worker step is enabled: the task is suspended on a request, a sleep or
\* the extractor, or the extractor task it left behind has not completed
Awaiting(w) == task[w].st = "live" \/ task[w].saving

\* a step of NextCrawl that is a step of the worker (the last pass of start()
\* changes tasks too, by cancelling them, and sets dpc)
WorkerMoved(w) == Awaiting(w) /\ task'[w] # task[w] /\ dpc' = dpc

\* asyncio runs every callback that is ready: start() is called, its
\* asyncio.sleep(10) returns, and every request, politeness sleep and
\* extractor call a worker awaits completes.  The last conjunct is
\* WF_vars(WorkerStep(w)) written out, with ENABLED <<WorkerStep(w)>>_vars
\* as Awaiting(w) and <<WorkerStep(w)>>_vars as WorkerMoved(w).
SpecCrawl ==
    /\ Init
    /\ [][NextCrawl]_vars
    /\ WF_vars(Start)
    /\ WF_vars(Wake)
    /\ \A w \in Tasks : []<>(~Awaiting(w)) \/ []<><<WorkerMoved(w)>>_vars

\* ------------------------------------------------------------------------
\* Properties of the crawl
\* ------------------------------------------------------------------------
TasksOf(o) == {w \in Tasks : task[w].st # "unborn" /\ task[w].origin = o}

\* C1: in a run of start(seeds), no origin has two crawl_domain tasks created
\* for it; in particular the seed origin, whose root page its own task
\* enqueues, gets no second task from the event load_queue publishes.
C1_OneWorkerPerOrigin ==
    \A o \in Origins : Cardinality(TasksOf(o)) <= 1

\* C2: a fetch of a sitemap or of a page of an origin starts only when every
\* politeness sleep begun before it by a running task of that origin has
\* completed, whatever the outcome of the iteration that began the sleep.
\* Stated for the origins that have a single task, where the fetches are
\* those of one loop.
C2_FetchesSeparatedByDelay ==
    \A o \in Origins : Cardinality(TasksOf(o)) <= 1 => polite[o]

\* the page is in the visited set as a page that was downloaded and handed
\* to the extractor (lines 207-209)
Extracted(x) == x.kind = "target" /\ x.parsed

\* C3: with respect_robots, no page that the robots rules held for its origin
\* deny has been downloaded and handed to the extractor.
C3_NoDeniedPageDownloaded ==
    policy.respect_robots =>
        \A i \in 1..Len(visited) :
            Extracted(visited[i]) =>
                is_respected(rules, visited[i].url.dom, visited[i].url.path)

\* C4: a task the dispatcher has cancelled starts no download, pushes into no
\* frontier and dispatches no extractor afterwards.
C4_CancelledWorkerStops ==
    \A w \in Tasks : ~task[w].afterCancel

\* C5: with duplicate_sensibility = 1, of two pages with different URLs and
\* the same text only the first downloaded is handed to the extractor and
\* added to the visited set.
C5_SecondIdenticalPageSkipped ==
    policy.duplicate_sensibility = 1 =>
        \A i, j \in 1..Len(visited) :
            (/\ i < j
             /\ Extracted(visited[i]) /\ Extracted(visited[j])
             /\ visited[i].url # visited[j].url)
                => WebText(visited[i].url) # WebText(visited[j].url)

\* C6: every page held by a frontier satisfies the selection policy, and the
\* sitemap selection policy as well when it was pushed from a sitemap.
C6_OnlySelectedPagesEnqueued ==
    \A o \in Origins :
        \A i \in 1..Len(domains_queues[o].q.heap) :
            LET item == domains_queues[o].q.heap[i].item IN
            /\ selection_policy(item.url)
            /\ item.sm => sitemap_selection_policy(item.url)

\* C10: no crawl_domain task ends with an exception, whatever request failed.
C10_NoWorkerEndsWithException ==
    \A w \in Tasks : task[w].st # "error"

\* C11: start() has returned without terminate() having been called only
\* when no task is live and no new-domain event is left on the event queue.
C11_ReturnsOnlyWhenDrained ==
    (dpc = "returned" /\ ~premature_end) =>
        /\ event_queue = <<>>
        /\ \A w \in Tasks : task[w].st # "live"

\* C13: load_queue has a HEAD request under way for a page only if
\* headers_before_visit answers true for it; with the default policy, never.
C13_HeadOnlyWhenAsked ==
    \A w \in Tasks :
        (task[w].st = "live" /\ task[w].pc = "head") =>
            headers_before_visit(task[w].lq.url)

\* the new-domain events of origin d that a step publishes
PublishedIn(old, new, d) ==
    IF Len(new) > Len(old)
    THEN Cardinality({i \in (Len(old) + 1)..Len(new) : new[i] = d})
    ELSE 0

\* C21: whatever the order in which the load_queue calls of the workers run,
\* the frontier of an origin is created once: a frontier that exists stays,
\* its push counter never goes back and the entries it holds are entries it
\* held or entries pushed by the step, and a step publishes one new-domain
\* event for an origin when it creates the frontier of that origin and none
\* otherwise.
C21_FrontierCreatedOnce ==
    [][\A d \in Origins :
          LET q0 == domains_queues[d].q
              q1 == domains_queues'[d].q IN
          /\ domains_queues[d].has =>
                /\ domains_queues'[d].has
                /\ q1.counter >= q0.counter
                /\ \A i \in 1..Len(q1.heap) :
                      q1.heap[i].counter < q0.counter =>
                          \E j \in 1..Len(q0.heap) : q0.heap[j] = q1.heap[i]
          /\ PublishedIn(event_queue, event_queue', d) =
                (IF ~domains_queues[d].has /\ domains_queues'[d].has THEN 1 ELSE 0)
      ]_vars

\* two workers are inside load_queue for pages of one origin whose frontier
\* an earlier call has created
C21_Witness ==
    \E v \in Tasks, w \in Tasks :
        /\ v # w
        /\ Running(v, "head") /\ Running(w, "head")
        /\ task[v].lq.url.dom = task[w].lq.url.dom
        /\ domains_queues[task[v].lq.url.dom].has
        /\ domains_queues[task[v].lq.url.dom].q.counter >= 1

\* C22: a poll of start() that takes events from the event queue takes all
\* of them and creates a task for each, so that no announced origin is left
\* in the queue for a later poll.
C22_PollDrainsEventQueue ==
    [][(dpc = "sleeping" /\ Len(event_queue') < Len(event_queue)) =>
          /\ event_queue' = <<>>
          /\ Cardinality({w \in Tasks : task[w].st = "unborn"
                                        /\ task'[w].st # "unborn"})
                = Len(event_queue)
      ]_vars

\* C23: once terminate() has set the flag, the next poll of start() is its
\* last: start() returns, no task is created by that poll or after it, and
\* cancel() has been called on every task that was live at that poll.
C23_TerminateStopsDispatcher ==
    [][/\ (premature_end /\ dpc = "sleeping" /\ dpc' # dpc) =>
             /\ dpc' = "returned"
             /\ \A w \in Tasks :
                   /\ task[w].st = "unborn" => task'[w].st = "unborn"
                   /\ task[w].st = "live" => task'[w].cancelled
       /\ (premature_end /\ dpc = "sleeping" /\ dpc' = dpc) =>
             \A w \in Tasks : task[w].st = "unborn" => task'[w].st = "unborn"
       /\ dpc = "returned" =>
             /\ dpc' = "returned"
             /\ \A w \in Tasks : task[w].st = "unborn" => task'[w].st = "unborn"
      ]_vars

\* start() has returned after terminate(), with a worker cancelled and an
\* announced origin left without a worker
C23_Witness ==
    /\ dpc = "returned" /\ premature_end
    /\ \E w \in Tasks : task[w].cancelled
    /\ \E w \in Tasks : task[w].st = "unborn"

\* the phase of crawl_domain a live task is in: 1 search_robots, 2
\* update_queue_from_sitemap, 3 priority_crawl
Phase(t) ==
    IF t.pc = "get" /\ t.ctx = "robots" THEN 1
    ELSE IF t.ctx = "map" THEN 2
    ELSE 3

\* C24: within one worker the phases follow one another: its robots.txt has
\* been answered (the robots page is in the visited set, downloaded or not)
\* before it fetches a sitemap, it never goes back to an earlier phase, and
\* it enters the priority crawl from the sitemap pass only when every
\* sitemap of its list has been handled, and straight from the robots phase
\* only when the fetch failed or was cancelled, or robots.txt names no
\* sitemap.
C24_PhasesInOrder ==
    [][\A w \in Tasks :
          (task'[w].st = "live" /\ task[w].st = "live") =>
              /\ Phase(task'[w]) >= Phase(task[w])
              /\ Phase(task'[w]) >= 2 =>
                    contains_url(visited', Url(task[w].origin, RobotsPath))
              /\ (Phase(task[w]) = 2 /\ Phase(task'[w]) = 3) =>
                    task[w].mpos = Len(task[w].maps)
              /\ (Phase(task[w]) = 1 /\ Phase(task'[w]) = 3) =>
                    \/ faults' = faults + 1
                    \/ ~task[w].cancelled /\ task'[w].cancelled
                    \/ WebRobotsFile(task[w].origin).sitemap = <<>>
      ]_vars

\* a worker whose origin has a sitemap downloads a page of its frontier
C24_Witness ==
    \E w \in Tasks :
        /\ Running(w, "get") /\ task[w].ctx = "page"
        /\ contains_url(visited, Url(task[w].origin, SitemapPath))
        /\ contains_url(visited, Url(task[w].origin, RobotsPath))

C26_FailedPageIsSkipped ==
    [][\A w \in Tasks :
          LET o  == task[w].origin
              q0 == domains_queues[o].q
              q1 == domains_queues'[o].q IN
          (/\ Running(w, "get") /\ task[w].ctx = "page"
           /\ faults' = faults + 1 /\ task'[w] # task[w]
           /\ task'[w].ctx # "ssl" /\ ~(task'[w].retry /\ ~task[w].retry)) =>
              /\ visited' = visited
              /\ task'[w].saving = task[w].saving
              /\ event_queue' = event_queue
              /\ \A d \in Origins :
                    /\ domains_queues'[d].has = domains_queues[d].has
                    /\ domains_queues'[d].q.counter = domains_queues[d].q.counter
              /\ \/ task'[w].st = "done" /\ QueueIsEmpty(q1)
                 \/ /\ task'[w].st = "live" /\ task'[w].pc = "get"
                    /\ task'[w].ctx = "page"
                    /\ Len(q1.heap) < Len(q0.heap)
                    /\ \E i \in 1..Len(q0.heap) :
                          q0.heap[i].item = task'[w].target
      ]_vars

\* the only download of the seed worker failed: it has returned, its root
\* page is not in the visited set and no other worker has started
C26_Witness ==
    /\ faults = 1
    /\ task[1].st = "done" /\ ~task[1].cancelled
    /\ domains_queues[task[1].origin].has
    /\ ~contains_url(visited, Root(task[1].origin))
    /\ \E i \in 1..Len(visited) :
          visited[i].url = Url(task[1].origin, RobotsPath) /\ visited[i].parsed
    /\ \A v \in Tasks \ {1} : task[v].st = "unborn"

\* the frontiers and the event queue of a session hold no push, no new
\* frontier and no new event with respect to the current state
NothingEnqueued(dq, ev) ==
    /\ ev = event_queue
    /\ \A d \in Origins :
          /\ dq[d].has = domains_queues[d].has
          /\ dq[d].q.counter = domains_queues[d].q.counter

C29_SitemapUrlPassedOnce ==
    \A w \in Tasks :
        LET ps == task[w].passed IN
        \A i \in 1..Len(ps) : \A j \in 1..Len(ps) : ps[i] = ps[j] => i = j

\* C30: the cost stored with a page at push is scheduling_cost(page) when
\* load_queue was called without a sitemap, and scheduling_cost(page) +
\* sitemap_scheduling_cost(entry) when it was called with one; an entry that
\* waits in the frontier keeps the cost it was pushed with.
C30_CostFixedAtPush ==
    [][\A d \in Origins :
          LET q0 == domains_queues[d].q
              q1 == domains_queues'[d].q
              n0 == IF domains_queues[d].has THEN q0.counter ELSE 0 IN
          \A i \in 1..Len(q1.heap) :
              LET e == q1.heap[i] IN
              IF e.counter >= n0
              THEN e.cost = IF e.item.sm
                            THEN SchedulingCost + SitemapSchedulingCost
                            ELSE SchedulingCost
              ELSE \E j \in 1..Len(q0.heap) :
                      /\ q0.heap[j].counter = e.counter
                      /\ q0.heap[j].item = e.item
                      /\ q0.heap[j].cost = e.cost
      ]_vars

\* a frontier holds a page pushed from a sitemap and a page pushed without
C30_Witness ==
    \E d \in Origins :
        LET h == domains_queues[d].q.heap IN
        \E i \in 1..Len(h) : \E j \in 1..Len(h) :
            /\ h[i].item.sm /\ h[i].cost = SchedulingCost + SitemapSchedulingCost
            /\ ~h[j].item.sm /\ h[j].cost = SchedulingCost

\* the page a task has a request pending for
Requested(t) ==
    IF t.pc = "head" THEN t.lq.url
    ELSE IF t.ctx = "robots" THEN Url(t.origin, RobotsPath)
    ELSE IF t.ctx = "map" THEN t.maps[t.mpos].url
    ELSE t.target.url

\* the task waits for the answer to a request sent without TLS verification
RetryPending(t) == t.st = "live" /\ t.pc \in {"get", "head"} /\ t.retry

C12_ExtractorAwaitedBeforeNextDownload ==
    \A w \in Tasks :
        ~(/\ task[w].st = "live"
          /\ task[w].pc = "get" /\ task[w].ctx = "page"
          /\ task[w].saving)

\* C16: a downloaded HTML page that declares a canonical URL other than its
\* own, with the canonical_url policy on, is in the visited set, and its
\* canonical URL was passed to load_queue exactly when it was not visited and
\* robots permitted it (or respect_robots was off).
C16_CanonicalEnqueuedWhenDue ==
    \A w \in Tasks :
        task[w].canon.declared =>
            /\ contains_url(visited, task[w].canon.page)
            /\ task[w].canon.passed = task[w].canon.due


Extracting(t) == t.st = "live" /\ t.saving /\ t.target.parsed

\* C34: no URL is handed to the extractor twice in a crawl; in particular no
\* two extractor calls for one URL are ever running together.
C34_UrlExtractedOnce ==
    \A v \in Tasks : \A w \in Tasks :
        (v # w /\ Extracting(task[v]) /\ Extracting(task[w])) =>
            task[v].target.url # task[w].target.url

\* a worker of origin o is running, or the dispatcher has yet to create one
\* for an event of o
WorkerToCome(o) ==
    \/ dpc = "init"
    \/ \E w \in Tasks : task[w].st = "live" /\ task[w].origin = o
    \/ dpc = "sleeping" /\ \E i \in 1..Len(event_queue) : event_queue[i] = o

\* C35: unless terminate() is called, a page pushed into a frontier is
\* eventually popped by a worker of its origin; so while the dispatcher runs
\* and no worker of the origin has ended with an exception, a frontier that
\* holds a page has a worker of its origin running or to come.
C35_NoPageStranded ==
    \A o \in Origins :
        (/\ ~premature_end /\ dpc = "sleeping"
         /\ \A w \in Tasks : task[w].origin = o => task[w].st # "error"
         /\ domains_queues[o].has
         /\ ~QueueIsEmpty(domains_queues[o].q)) => WorkerToCome(o)

\* C36: every element of the visited set has its body present, so with
\* duplicate_sensibility >= 1 the duplicate check of a page whose download
\* is pending does not fail with MissingDownloadException when the download
\* completes.
C36_VisitedBodiesPresent ==
    /\ \A i \in 1..Len(visited) : visited[i].parsed
    /\ policy.duplicate_sensibility >= 1 =>
          \A w \in Tasks :
              (/\ task[w].st = "live"
               /\ task[w].pc = "get" /\ task[w].ctx = "page") =>
                  violate_duplicate_policy(
                      policy.duplicate_sensibility, visited,
                      [task[w].target EXCEPT !.parsed = TRUE]) # "missing"

C40_ReapRemovesCompleted ==
    [][(/\ dpc = "sleeping"
        /\ all_sub_task' # all_sub_task \/ dpc' # dpc) =>
           \A i \in 1..Len(all_sub_task') :
               ~IsDone(task[all_sub_task'[i]])]_vars

\* ------------------------------------------------------------------------
\* One page object and the requests it sends
\* ------------------------------------------------------------------------
PgStart == RbIdle /\ WqInit /\ WsInit /\ CrIdle /\ SessionInit /\ FnIdle

\* the URLs requested since download() or get_header_info() was called
RequestedInCall(P, op) ==
    LET sofar == IF op \in {"download", "get_header_info"}
                 THEN <<>> ELSE pg_last.chain IN
    IF P.requests > requests THEN Append(sofar, P.request.url) ELSE sofar

PgCommit(P, op, status, location) ==
    /\ web_page' = P.page
    /\ pg_request' = P.request
    /\ requests' = P.requests
    /\ pg_last' = [op |-> op, status |-> status, location |-> location,
                   before |-> web_page, requests |-> requests,
                   outcome |-> P.outcome, raised |-> P.status,
                   chain |-> RequestedInCall(P, op)]
    /\ UNCHANGED <<coreVars, shVars, urlVars, auxVars>>

PgNew ==
    /\ pg_request = NoRequest
    /\ \E u \in PageUrls :
          /\ web_page' = NewWebPage(u)
          /\ pg_last' = [NoLast EXCEPT !.before = web_page, !.requests = requests]
    /\ pg_request' = NoRequest
    /\ requests' = 0
    /\ UNCHANGED <<coreVars, shVars, urlVars, auxVars>>

PgDownload ==
    /\ pg_request = NoRequest
    /\ requests < MaxRequests
    /\ \E without_ssl \in BOOLEAN :
          PgCommit(download(PageState, without_ssl), "download", 0, NoLocation)

PgGetHeaderInfo ==
    /\ pg_request = NoRequest
    /\ requests < MaxRequests
    /\ \E without_ssl \in BOOLEAN :
          PgCommit(get_header_info(PageState, without_ssl), "get_header_info",
                   0, NoLocation)

\* a response follows another request only while the page may send one
PgResponses ==
    {sl \in Statuses \X (Locations \cup {NoLocation}) :
        /\ sl[2] # NoLocation => sl[1] = 301
        /\ (sl[1] = 301 /\ sl[2] # NoLocation) => requests < MaxRequests}

PgHeadResponse ==
    /\ pg_request.kind = "head"
    /\ \E sl \in PgResponses :
          PgCommit(HeadAnswered(PageState, sl[1], sl[2]), "head_response",
                   sl[1], sl[2])

PgGetResponse ==
    /\ pg_request.kind = "get"
    /\ \E sl \in PgResponses :
          PgCommit(GetAnswered(PageState, sl[1], sl[2]), "get_response",
                   sl[1], sl[2])

PgNext ==
    \/ PgNew
    \/ PgDownload
    \/ PgGetHeaderInfo
    \/ PgHeadResponse
    \/ PgGetResponse

SpecPage == PgStart /\ [][PgNext]_vars

\* C14: a call of download() on a page whose body is present sends no HTTP
\* request and leaves url, head, last_modify and content as they were.
C14_DownloadIdempotent ==
    (pg_last.op = "download" /\ pg_last.before.text.has) =>
        /\ requests = pg_last.requests
        /\ pg_request = NoRequest
        /\ web_page.url = pg_last.before.url
        /\ web_page.head = pg_last.before.head
        /\ web_page.last_modify = pg_last.before.last_modify
        /\ web_page.text = pg_last.before.text

C14_Witness ==
    /\ pg_last.op = "download" /\ pg_last.before.text.has
    /\ pg_last.outcome = "returned"

\* C15: when the response to a HEAD or a GET has a 3xx status other than 304
\* and a Location header, the page's URL becomes Location resolved against
\* the URL the page had and a GET of the new URL is sent; when it has such a
\* status and no Location, the fetch raises ResponseStatusException with that
\* status and url, head and content are as before.
IsRedirect(st) == st \div 100 = 3 /\ st # 304

C38_RedirectChainEnds ==
    \A i, j \in 1..Len(pg_last.chain) :
        i < j => pg_last.chain[i] # pg_last.chain[j]

\* C27: get_header_info on a page without head that is answered any 2xx
\* status stores the head and raises nothing; it raises NotModified on 304
\* and ResponseStatusException with the status on 4xx/5xx and on another 3xx
\* without Location; on a page whose head is stored it sends no request.
C27_HeadStoredOnAny2xx ==
    /\ (pg_last.op = "head_response" /\ ~pg_last.before.head.has) =>
          /\ pg_last.status \div 100 = 2 =>
                /\ pg_last.outcome = "returned"
                /\ web_page.head.has
                /\ pg_request = NoRequest
          /\ pg_last.status = 304 =>
                pg_last.outcome = "ResponseStatusNotModified"
          /\ (\/ pg_last.status \div 100 \in {4, 5}
              \/ IsRedirect(pg_last.status) /\ pg_last.location = NoLocation) =>
                /\ pg_last.outcome = "ResponseStatusException"
                /\ pg_last.raised = pg_last.status
    /\ (pg_last.op = "get_header_info" /\ pg_last.before.head.has) =>
          /\ requests = pg_last.requests
          /\ pg_request = NoRequest


\* ------------------------------------------------------------------------
\* Contents, simhashes and the duplicate tests of a set of downloaded pages
\* ------------------------------------------------------------------------
ShStart ==
    /\ RbIdle /\ WqInit /\ WsInit /\ CrIdle /\ SessionInit /\ PgIdle /\ UrlIdle
    /\ AuxIdle
    /\ parsers \in [Objects -> {NewParser(t, FALSE) : t \in Texts}
                               \cup {NewParser(<<>>, TRUE)}]
    /\ sh_items = <<>>
    /\ sh_last = NoShCall

ShAdd ==
    /\ \E i \in Objects :
          /\ ~PageIn(sh_items, ShPage(i))
          /\ sh_items' = WebSetAdd(sh_items, ShPage(i))
          /\ sh_last' = [NoShCall EXCEPT !.op = "add", !.a = i]
    /\ UNCHANGED <<parsers, coreVars, pgVars, urlVars, auxVars>>

ShSimhash ==
    /\ \E i \in Objects, size \in 1..HashSize :
          LET r == simhash(parsers[i], size) IN
          /\ ~parsers[i].bytes
          /\ parsers' = [parsers EXCEPT ![i] = r.parser]
          /\ sh_last' = [NoShCall EXCEPT !.op = "simhash", !.a = i,
                                         !.size = size, !.val = r.val,
                                         !.before = parsers[i].s_hash]
    /\ UNCHANGED <<sh_items, coreVars, pgVars, urlVars, auxVars>>

ShDistance ==
    /\ \E a \in Objects, b \in Objects, size \in 1..HashSize :
          LET r1 == simhash_distance(parsers, a, b, size)
              r2 == simhash_distance(r1.ps, b, a, size) IN
          /\ parsers' = r2.ps
          /\ sh_last' = [NoShCall EXCEPT !.op = "distance", !.a = a, !.b = b,
                                         !.size = size,
                                         !.d_ab = r1.d, !.d_ba = r2.d]
    /\ UNCHANGED <<sh_items, coreVars, pgVars, urlVars, auxVars>>

ShQuery ==
    /\ \E p \in Objects, k \in 0..MaxDistance :
          LET r == contains_nearduplicate(sh_items, parsers, p, k) IN
          /\ parsers' = r.ps
          /\ sh_last' = [NoShCall EXCEPT
                            !.op = "query", !.a = p, !.size = k,
                            !.dup = contains_duplicate(sh_items, ShPage(p)),
                            !.near = r.res]
    /\ UNCHANGED <<sh_items, coreVars, pgVars, urlVars, auxVars>>

ShNext ==
    \/ ShAdd
    \/ ShSimhash
    \/ ShDistance
    \/ ShQuery

SpecSim == ShStart /\ [][ShNext]_vars

AllText == \A i \in Objects : ~parsers[i].bytes

\* ------------------------------------------------------------------------
\* C17 as stated.  For a text page p and a visited set,
\* contains_near_duplicate(p, 0) returns the same boolean as
\* contains_duplicate(p).
\* ------------------------------------------------------------------------
C17_NearZeroEqualsDuplicate ==
    (sh_last.op = "query" /\ sh_last.size = 0 /\ AllText) =>
        sh_last.near = sh_last.dup

\* C17, amended.  For a text page p and a visited set,
\* contains_near_duplicate(p, 0) never returns true: the distance test is
\* strict, so no element is within distance 0, whatever contains_duplicate(p)
\* returns.
C17_NearZeroNeverTrue ==
    (sh_last.op = "query" /\ sh_last.size = 0 /\ ~parsers[sh_last.a].bytes) =>
        sh_last.near # "true"

\* a query at distance 0 for a page whose text an element of the set has too
C17_Witness ==
    /\ sh_last.op = "query" /\ sh_last.size = 0 /\ AllText
    /\ \E i \in 1..Len(sh_items) :
          /\ parsers[sh_items[i].oid].text = parsers[sh_last.a].text
          /\ parsers[sh_items[i].oid].s_hash = parsers[sh_last.a].s_hash
    /\ sh_last.near = "false"

\* ------------------------------------------------------------------------
\* C18.  For text contents a and b, simhash_distance(a, b) equals
\* simhash_distance(b, a) and is 0 when a and b are the same text; bit i of
\* the simhash of a text, for i below the size asked for, is 1 exactly when
\* more of its words have bit i set in their hash than have it clear.
\* ------------------------------------------------------------------------
WordsWithBit(text, i, v) ==
    Cardinality({k \in 1..Len(text) : Bit(Md5(text[k]), i) = v})

C18_SimhashDistanceAndBits ==
    /\ (sh_last.op = "distance" /\ AllText) =>
          /\ sh_last.d_ab = sh_last.d_ba
          /\ parsers[sh_last.a].text = parsers[sh_last.b].text => sh_last.d_ab = 0
    /\ (sh_last.op = "simhash") =>
          \A i \in 0..(sh_last.size - 1) :
              (Bit(sh_last.val, i) = 1) <=>
                  (WordsWithBit(parsers[sh_last.a].text, i, 1)
                     > WordsWithBit(parsers[sh_last.a].text, i, 0))


\* ------------------------------------------------------------------------
\* The `found` set of update_queue_from_sitemap (dysderacrawler.py:126-158)
\* ------------------------------------------------------------------------
UrlStart == RbIdle /\ WqInit /\ WsInit /\ CrIdle /\ SessionInit /\ FnIdle

\* a new sitemap pass: found = set()
UrlNewPass ==
    /\ found # {}
    /\ found' = {}
    /\ url_last' = NoLink
    /\ UNCHANGED <<coreVars, pgVars, shVars, auxVars>>

\* `link not in found` ... `found.add(link)`
UrlFound ==
    /\ \E l \in LinkStrings :
          LET link == URLParsed(l) IN
          /\ found' = SetAdd(found, link)
          /\ url_last' = [has |-> TRUE, link |-> link, added |-> ~InSet(found, link)]
    /\ UNCHANGED <<coreVars, pgVars, shVars, auxVars>>

UrlNext ==
    \/ UrlNewPass
    \/ UrlFound

SpecUrl == UrlStart /\ [][UrlNext]_vars

\* C19: two URL values that are equal (same host, path and query, whatever
\* their fragment or the scheme they were written with) have the same hash,
\* so a set holds at most one of them: a link equal to an element of `found`
\* is not added, and no two elements of `found` are equal.
C19_HashConsistentWithEq ==
    /\ \A a \in found : \A b \in found :
          URLEq(a, b) => (URLHash(a) = URLHash(b) /\ a = b)
    /\ url_last.has =>
          \A e \in found :
              URLEq(e, url_last.link) => URLHash(e) = URLHash(url_last.link)


\* ------------------------------------------------------------------------
\* One RobotsParser and the robots.txt it parses
\* ------------------------------------------------------------------------
RpStart ==
    /\ RbIdle /\ WqInit /\ WsInit /\ CrIdle /\ SessionInit
    /\ PgIdle /\ ShIdle /\ UrlIdle /\ SmIdle
    /\ rp_lines \in RobotsTexts
    /\ rp_parser = NewRobotsParser

\* WebRobots.process(): parser.parse(url, as_agent)
RpParse ==
    /\ ~rp_parser.parsed
    /\ rp_parser' = parse(rp_lines, rp_parser)
    /\ UNCHANGED <<rp_lines, coreVars, pgVars, shVars, urlVars, smVars>>

RpNext == RpParse

SpecParser == RpStart /\ [][RpNext]_vars

\* the lines of an agent block: from the line after a User-agent line of the
\* caller to the line before the next User-agent or Sitemap line
InBlock(lines, k) ==
    \E u \in 1..(k - 1) :
        /\ lines[u].kind = "user-agent" /\ lines[u].val \in AsAgent
        /\ \A m \in (u + 1)..(k - 1) :
              lines[m].kind \notin {"user-agent", "sitemap"}

Contributed(lines, kind) ==
    {lines[k].val : k \in {n \in 1..Len(lines) :
                              lines[n].kind = kind /\ InBlock(lines, n)}}

\* C32: a Disallow, Allow or Crawl-delay line contributes to the result if
\* and only if it lies in a block opened by a User-agent line of the caller
\* and before the next User-agent or Sitemap line; every Sitemap line, also
\* one that follows such a User-agent line directly, ends the block and is
\* recorded as a sitemap.
C32_DirectivesOfAgentBlock ==
    rp_parser.parsed =>
        /\ rp_parser.prohibited = Contributed(rp_lines, "disallow")
        /\ rp_parser.allowed = Contributed(rp_lines, "allow")
        /\ (rp_parser.polite_delay # 0) = (Contributed(rp_lines, "crawl-delay") # {})
        /\ rp_parser.sitemap =
              {rp_lines[k].val : k \in {n \in 1..Len(rp_lines) :
                                           rp_lines[n].kind = "sitemap"}}


\* ------------------------------------------------------------------------
\* One pass of update_queue_from_sitemap over sitemaps that may be indexes
\* ------------------------------------------------------------------------
\* the list robots.txt gave: get_sitemaps() builds it with WebSet.add
SmStart ==
    /\ RbIdle /\ WqInit /\ WsInit /\ CrIdle /\ SessionInit
    /\ PgIdle /\ ShIdle /\ UrlIdle /\ RpIdle
    /\ sm_web \in [SitemapUrls -> SitemapFiles]
    /\ sm_maps \in {AddMaps(<<>>, l) : l \in ChildLists \ {<<>>}}
    /\ sm_pos = 0
    /\ sm_pc = "loop"
    /\ sm_log = <<>>

\* `for mappa in maps` (line 127): WebSet.__next__ (web.py:240-246) answers
\* the element at pos or ends the loop; then `await mappa.download()`
SmIterate ==
    /\ sm_pc = "loop"
    /\ Len(sm_log) < MaxFetches
    /\ IF sm_pos < Len(sm_maps)
       THEN /\ sm_pos' = sm_pos + 1
            /\ sm_pc' = "get"
            /\ sm_log' = Append(sm_log, sm_maps[sm_pos + 1].url)
       ELSE /\ sm_pc' = "done"
            /\ UNCHANGED <<sm_pos, sm_log>>
    /\ UNCHANGED <<sm_web, sm_maps, rpVars, coreVars, pgVars, shVars, urlVars>>

\* the GET of the sitemap is answered 3xx with a Location (web.py:208-215):
\* the element's URL becomes the new one, of which a GET is sent
SmRedirected ==
    /\ sm_pc = "get"
    /\ \E r \in SitemapUrls \ {sm_maps[sm_pos].url} :
          /\ sm_maps' = [sm_maps EXCEPT ![sm_pos].url = r]
          /\ sm_log' = Append(sm_log, r)
    /\ sm_pc' = "moved"
    /\ UNCHANGED <<sm_web, sm_pos, rpVars, coreVars, pgVars, shVars, urlVars>>

\* the download is answered (lines 131-149): a failure leaves the iteration
\* (`finally: continue`); the children of an index are added to the list the
\* loop iterates; the links of a urlset go to load_queue
SmResponse ==
    /\ sm_pc \in {"get", "moved"}
    /\ \E ok \in BOOLEAN :
          LET f == sm_web[sm_maps[sm_pos].url]
              l == [sm_maps EXCEPT ![sm_pos].parsed = TRUE] IN
          sm_maps' = IF ~ok THEN sm_maps
                     ELSE IF f.map_of_maps THEN AddMaps(l, f.maps)
                     ELSE l
    /\ sm_pc' = "loop"
    /\ UNCHANGED <<sm_web, sm_pos, sm_log, rpVars, coreVars, pgVars, shVars,
                   urlVars>>

SmNext == SmIterate \/ SmRedirected \/ SmResponse

\* the event loop resumes the pass when its download has been answered
SpecMaps ==
    /\ SmStart
    /\ [][SmNext]_vars
    /\ WF_vars(SmIterate)
    /\ WF_vars(SmResponse)

\* C39: one pass over the sitemaps ends, and it sends the GET of no sitemap
\* URL twice, whatever the indexes name.
C39_SitemapPassEnds ==
    /\ [](\A i, j \in 1..Len(sm_log) : i < j => sm_log[i] # sm_log[j])
    /\ <>(sm_pc = "done")

====
